---- MODULE Spec2Model ----
(***************************************************************************)
(* A model of chill's thermal-network integrator, src/src/lib.rs:          *)
(* process() advances node temperatures through `steps` explicit-Euler     *)
(* steps; each step evaluates every edge (update_edge) against the current *)
(* temperatures into update_list and then applies the list entry by entry  *)
(* behind the |delta| > 1e8 guard.                                         *)
(*                                                                         *)
(* f64 arithmetic is modelled as binary floating point with Prec           *)
(* significant bits, round-to-nearest-even, with +-inf and NaN.  The       *)
(* exponent range is not bounded (the inputs are), and the two zeros are   *)
(* one value.                                                              *)
(***************************************************************************)
EXTENDS Integers, Sequences, FiniteSets

\* ------------------------------------------------------------------ bounds
Prec == 3        \* significant bits of the modelled f64 (53 in the program)
MaxEdges == 2    \* longest edge list of a well-formed input
MaxSteps == 2    \* largest `steps` of an input

\* ------------------------------------------------------- f64 arithmetic
\* A finite value is m * 2^e with m odd (or m = 0, e = 0): one record per value.
NaN == [k |-> "nan", m |-> 0, e |-> 0]
Inf(s) == [k |-> "inf", m |-> s, e |-> 0]
Zero == [k |-> "fin", m |-> 0, e |-> 0]

IsFin(x) == x.k = "fin"
IsNaN(x) == x.k = "nan"
IsInf(x) == x.k = "inf"

IAbs(n) == IF n < 0 THEN -n ELSE n
Sgn(n) == IF n < 0 THEN -1 ELSE IF n > 0 THEN 1 ELSE 0
SignOf(x) == Sgn(x.m)

RECURSIVE BitLen(_)
BitLen(n) == IF n = 0 THEN 0 ELSE 1 + BitLen(n \div 2)

RECURSIVE Canon(_, _)
Canon(m, e) ==
    IF m = 0 THEN Zero
    ELSE IF m % 2 = 0 THEN Canon(m \div 2, e + 1)
    ELSE [k |-> "fin", m |-> m, e |-> e]

\* n * 2^e rounded to Prec significant bits, ties to even.
Round(n, e) ==
    LET a == IAbs(n)
        len == BitLen(a)
    IN  IF len <= Prec THEN Canon(n, e)
        ELSE LET s == len - Prec
                 q == a \div (2 ^ s)
                 r == a % (2 ^ s)
                 half == 2 ^ (s - 1)
                 up == r > half \/ (r = half /\ q % 2 = 1)
                 q2 == IF up THEN q + 1 ELSE q
             IN  Canon(Sgn(n) * q2, e + s)

\* Op applied to the values of its arguments, each evaluated once.
Once1(Op(_), x) == CHOOSE r \in {Op(v) : v \in {x}} : TRUE
Once2(Op(_, _), x, y) == CHOOSE r \in {Op(v, w) : v \in {x}, w \in {y}} : TRUE

\* The exponent of the bit above the leading one: |x| < 2^Top(x).
Top(x) == x.e + BitLen(IAbs(x.m))

NegOf(x) ==
    IF IsNaN(x) THEN NaN
    ELSE IF IsInf(x) THEN Inf(-x.m)
    ELSE [k |-> "fin", m |-> -x.m, e |-> x.e]

FNeg(x) == Once1(NegOf, x)

AddOf(x, y) ==
    IF IsNaN(x) \/ IsNaN(y) THEN NaN
    ELSE IF IsInf(x) /\ IsInf(y) THEN (IF x.m = y.m THEN x ELSE NaN)
    ELSE IF IsInf(x) THEN x
    ELSE IF IsInf(y) THEN y
    ELSE IF x.m = 0 THEN y
    ELSE IF y.m = 0 THEN x
    ELSE IF Top(x) - Top(y) >= Prec + 2 THEN x
    ELSE IF Top(y) - Top(x) >= Prec + 2 THEN y
    ELSE LET e == IF x.e < y.e THEN x.e ELSE y.e
         IN  Round(x.m * 2 ^ (x.e - e) + y.m * 2 ^ (y.e - e), e)

FAdd(x, y) == Once2(AddOf, x, y)

FSub(x, y) == FAdd(x, FNeg(y))

MulOf(x, y) ==
    IF IsNaN(x) \/ IsNaN(y) THEN NaN
    ELSE IF IsInf(x) \/ IsInf(y)
         THEN (IF SignOf(x) * SignOf(y) = 0 THEN NaN ELSE Inf(SignOf(x) * SignOf(y)))
    ELSE Round(x.m * y.m, x.e + y.e)

FMul(x, y) == Once2(MulOf, x, y)

DivOf(x, y) ==
    IF IsNaN(x) \/ IsNaN(y) THEN NaN
    ELSE IF IsInf(x) THEN (IF IsInf(y) THEN NaN
                           ELSE Inf(x.m * (IF y.m < 0 THEN -1 ELSE 1)))
    ELSE IF IsInf(y) THEN Zero
    ELSE IF y.m = 0 THEN (IF x.m = 0 THEN NaN ELSE Inf(Sgn(x.m)))
    ELSE IF x.m = 0 THEN Zero
    ELSE LET sh == 2 * Prec + 1
             num == IAbs(x.m) * 2 ^ sh
             den == IAbs(y.m)
             q == num \div den
             sticky == IF num % den = 0 THEN 0 ELSE 1
         IN  Round(Sgn(x.m) * Sgn(y.m) * (2 * q + sticky), x.e - y.e - sh - 1)

FDiv(x, y) == Once2(DivOf, x, y)

\* f64::powi(4): two squarings.
SquareOf(x) == FMul(x, x)
Powi4(x) == Once1(SquareOf, Once1(SquareOf, x))

\* x.abs() > n for an integer n >= 0 (false for NaN, as every comparison is).
AbsGt(x, n) ==
    IF IsNaN(x) THEN FALSE
    ELSE IF IsInf(x) THEN TRUE
    ELSE LET a == IAbs(x.m)
         IN  IF x.e >= 0
             THEN (IF BitLen(a) + x.e > 31 THEN TRUE ELSE a * 2 ^ x.e > n)
             ELSE (IF BitLen(n) - x.e > 31 THEN FALSE ELSE a > n * 2 ^ (-x.e))

\* The f64 nearest to the integer n.
F(n) == Round(n, 0)


\* ------------------------------------------------------ program constants
Threshold == 100000000      \* 1e8, the guard of the apply loop

\* ------------------------------------------------------------- the state
VARIABLES
    inp,            \* the arguments of the current call of process (the caller's arrays)
    pc,             \* caller (before the call), then where the call is: entry, loop,
                    \* apply, Completed, Failed, Panicked; idle between chained calls
    temperatures,   \* the owned working vector (let mut temperatures)
    i,              \* iterations of `for _i in 0..steps` completed
    update_list,    \* the step's Vec<(usize, f64)>
    ret,            \* what the call returned to the caller
    orig,           \* the caller's original request (temperatures and steps)
    phase,          \* the caller: "single" (one call with steps = k) or "chain"
    first,          \* the caller's record of the single call's outcome
    chain           \* the caller's chain of calls with steps = 1

vars == <<inp, pc, temperatures, i, update_list, ret, orig, phase, first, chain>>
procVars == <<pc, temperatures, i, update_list, ret>>
callerVars == <<orig, phase, first, chain>>

\* ------------------------------------------------------------ slices
\* Rust indexes from 0; a TLA+ sequence from 1.
InBounds(s, n) == n >= 0 /\ n < Len(s)
At(s, n) == s[n + 1]
Min2(a, b) == IF a < b THEN a ELSE b

\* -------------------------------------------------------- return values
NoRet == [tag |-> "none", array |-> <<>>, kind |-> "none", code |-> 0, node |-> 0, delta |-> Zero]
OkRet(v) == [NoRet EXCEPT !.tag = "ok", !.array = v]
UndefinedEdgeType(c) == [NoRet EXCEPT !.tag = "err", !.kind = "UndefinedEdgeType", !.code = c]
LargeChange(n, d) == [NoRet EXCEPT !.tag = "err", !.kind = "LargeChange", !.node = n, !.delta = d]
PanicRet == [NoRet EXCEPT !.tag = "panic"]

\* ------------------------------------------------------------ EdgeType
from_i32(value) ==
    CASE value = 0 -> "Transfer"
      [] value = 1 -> "Radiation"
      [] value = 2 -> "HeatInput"
      [] OTHER -> "None"

\* ------------------------------------------- faulty variants of update_edge
\* update_edge with both contributions of a Transfer or Radiation edge divided
\* by capacities[n1].
update_edge_OneCapacity(edge_type, parameter, dt, capacities, temps, n1, n2, updates) ==
    IF edge_type = "HeatInput"
    THEN IF ~InBounds(capacities, n2)
         THEN [st |-> "panic", updates |-> updates]
         ELSE [st |-> "ok",
               updates |-> Append(updates,
                                  <<n2, FDiv(FMul(parameter, dt), At(capacities, n2))>>)]
    ELSE IF ~InBounds(temps, n2) \/ ~InBounds(temps, n1)
            \/ ~InBounds(capacities, n1) \/ ~InBounds(capacities, n2)
         THEN [st |-> "panic", updates |-> updates]
         ELSE LET delta_temp ==
                      IF edge_type = "Transfer"
                      THEN FMul(FDiv(FSub(At(temps, n2), At(temps, n1)), parameter), dt)
                      ELSE FMul(FMul(FSub(Powi4(At(temps, n2)), Powi4(At(temps, n1))),
                                     parameter), dt)
              IN  [st |-> "ok",
                   updates |-> updates \o
                       << <<n1, FDiv(delta_temp, At(capacities, n1))>>,
                          <<n2, FDiv(FNeg(delta_temp), At(capacities, n1))>> >>]

\* update_edge with the contribution of a HeatInput edge pushed for n1 as well.
update_edge_HeatBothEnds(edge_type, parameter, dt, capacities, temps, n1, n2, updates) ==
    IF edge_type = "HeatInput"
    THEN IF ~InBounds(capacities, n2) \/ ~InBounds(capacities, n1)
         THEN [st |-> "panic", updates |-> updates]
         ELSE LET delta_temp == FMul(parameter, dt)
              IN  [st |-> "ok",
                   updates |-> updates \o
                       << <<n2, FDiv(delta_temp, At(capacities, n2))>>,
                          <<n1, FDiv(delta_temp, At(capacities, n1))>> >>]
    ELSE IF ~InBounds(temps, n2) \/ ~InBounds(temps, n1)
            \/ ~InBounds(capacities, n1) \/ ~InBounds(capacities, n2)
         THEN [st |-> "panic", updates |-> updates]
         ELSE LET delta_temp ==
                      IF edge_type = "Transfer"
                      THEN FMul(FDiv(FSub(At(temps, n2), At(temps, n1)), parameter), dt)
                      ELSE FMul(FMul(FSub(Powi4(At(temps, n2)), Powi4(At(temps, n1))),
                                     parameter), dt)
              IN  [st |-> "ok",
                   updates |-> updates \o
                       << <<n1, FDiv(delta_temp, At(capacities, n1))>>,
                          <<n2, FDiv(FNeg(delta_temp), At(capacities, n2))>> >>]

\* ---------------------------------------------------------- update_edge
\* The result: st = "ok" with the updates pushed, or "panic" (an index out of
\* bounds of a slice).
update_edge(edge_type, parameter, dt, capacities, temps, n1, n2, updates) ==
    IF edge_type = "HeatInput"
    THEN IF ~InBounds(capacities, n2)
         THEN [st |-> "panic", updates |-> updates]
         ELSE LET delta_temp == FMul(parameter, dt)
              IN  [st |-> "ok",
                   updates |-> Append(updates, <<n2, FDiv(delta_temp, At(capacities, n2))>>)]
    ELSE IF ~InBounds(temps, n2) \/ ~InBounds(temps, n1)
            \/ ~InBounds(capacities, n1) \/ ~InBounds(capacities, n2)
         THEN [st |-> "panic", updates |-> updates]
         ELSE LET delta_temp ==
                      IF edge_type = "Transfer"
                      THEN FMul(FDiv(FSub(At(temps, n2), At(temps, n1)), parameter), dt)
                      ELSE FMul(FMul(FSub(Powi4(At(temps, n2)), Powi4(At(temps, n1))),
                                     parameter), dt)
              IN  [st |-> "ok",
                   updates |-> updates \o
                       << <<n1, FDiv(delta_temp, At(capacities, n1))>>,
                          <<n2, FDiv(FNeg(delta_temp), At(capacities, n2))>> >>]

\* ------------------------------------------------- the edge loop of a step
\* edge_types.iter().zip(parameters).zip(connections): as long as the shortest.
ZipLen(in) == Min2(Min2(Len(in.edge_types), Len(in.parameters)), Len(in.connections))

\* let mut update_list = Vec::with_capacity(..): empty at the start of each step.
NewUpdateList(old) == <<>>

\* Edges k.. of the list, each evaluated against temps, pushing to updates.
\* st = "ok" | "err" (an undefined edge type, its code in `code`) | "panic".
\* What follows update_edge's result r for edge k: `?` on a panic, else the next edge.
RECURSIVE EvalFrom(_, _, _, _)
AfterEdge(in, temps, k, r) ==
    IF r.st = "panic"
    THEN [st |-> "panic", updates |-> r.updates, code |-> 0]
    ELSE EvalFrom(in, temps, k + 1, r.updates)

EvalFrom(in, temps, k, updates) ==
    IF k > ZipLen(in) THEN [st |-> "ok", updates |-> updates, code |-> 0]
    ELSE LET edge_type == from_i32(in.edge_types[k])
         IN  IF edge_type = "None"
             THEN [st |-> "err", updates |-> updates, code |-> in.edge_types[k]]
             ELSE Once1(LAMBDA r : AfterEdge(in, temps, k, r),
                        update_edge(edge_type, in.parameters[k], in.dt,
                                    in.capacities, temps,
                                    in.connections[k][1], in.connections[k][2], updates))

\* A faulty variant of the edge loop: each edge reads the temperatures with the
\* contributions pushed so far in this step already added.
RECURSIVE Patched(_, _, _)
Patched(temps, updates, j) ==
    IF j > Len(updates) THEN temps
    ELSE Patched(IF InBounds(temps, updates[j][1])
                 THEN [temps EXCEPT ![updates[j][1] + 1] = FAdd(@, updates[j][2])]
                 ELSE temps,
                 updates, j + 1)

RECURSIVE EvalInPlaceFrom(_, _, _, _)
EvalInPlaceFrom(in, temps, k, updates) ==
    IF k > ZipLen(in) THEN [st |-> "ok", updates |-> updates, code |-> 0]
    ELSE LET edge_type == from_i32(in.edge_types[k])
             r == update_edge(edge_type, in.parameters[k], in.dt, in.capacities,
                              Patched(temps, updates, 1),
                              in.connections[k][1], in.connections[k][2], updates)
         IN  IF edge_type = "None"
             THEN [st |-> "err", updates |-> updates, code |-> in.edge_types[k]]
             ELSE IF r.st = "panic"
             THEN [st |-> "panic", updates |-> r.updates, code |-> 0]
             ELSE EvalInPlaceFrom(in, temps, k + 1, r.updates)

EvaluateEdgesInPlace(in, temps, old) == EvalInPlaceFrom(in, temps, 1, <<>>)

EvaluateEdges(in, temps, old) == EvalFrom(in, temps, 1, NewUpdateList(old))

\* ---------------------------------------------------------- the apply loop
\* if delta_temp.abs() > 1e8
Unreasonable(delta_temp) == AbsGt(delta_temp, Threshold)

\* A faulty variant of the apply loop: `=` for `+=`.
RECURSIVE ApplyFromOverwriting(_, _, _)
ApplyFromOverwriting(temps, list, j) ==
    IF j > Len(list) THEN [st |-> "ok", temps |-> temps, node |-> 0, delta |-> Zero]
    ELSE LET idx == list[j][1]
             delta_temp == list[j][2]
         IN  IF Unreasonable(delta_temp)
             THEN [st |-> "err", temps |-> temps, node |-> idx, delta |-> delta_temp]
             ELSE IF ~InBounds(temps, idx)
             THEN [st |-> "panic", temps |-> temps, node |-> idx, delta |-> delta_temp]
             ELSE ApplyFromOverwriting([temps EXCEPT ![idx + 1] = delta_temp], list, j + 1)

\* A faulty variant of the apply loop: the guard tests the change accumulated
\* by the node in this step, not the single contribution.
RECURSIVE ApplyGuardingSumFrom(_, _, _, _)
ApplyGuardingSumFrom(snap, temps, list, j) ==
    IF j > Len(list) THEN [st |-> "ok", temps |-> temps, node |-> 0, delta |-> Zero]
    ELSE LET idx == list[j][1]
         IN  IF ~InBounds(temps, idx)
             THEN [st |-> "panic", temps |-> temps, node |-> idx, delta |-> list[j][2]]
             ELSE LET sum == FSub(FAdd(temps[idx + 1], list[j][2]), snap[idx + 1])
                  IN  IF Unreasonable(sum)
                      THEN [st |-> "err", temps |-> temps, node |-> idx, delta |-> sum]
                      ELSE ApplyGuardingSumFrom(
                               snap, [temps EXCEPT ![idx + 1] = FAdd(@, list[j][2])],
                               list, j + 1)

ApplyUpdatesGuardingSum(temps, list) == ApplyGuardingSumFrom(temps, temps, list, 1)

\* Entries j.. of the list applied to temps in order.
\* st = "ok" | "err" (the guard, at entry <<node, delta>>) | "panic".
RECURSIVE ApplyFrom(_, _, _)
ApplyFrom(temps, list, j) ==
    IF j > Len(list) THEN [st |-> "ok", temps |-> temps, node |-> 0, delta |-> Zero]
    ELSE LET idx == list[j][1]
             delta_temp == list[j][2]
         IN  IF Unreasonable(delta_temp)
             THEN [st |-> "err", temps |-> temps, node |-> idx, delta |-> delta_temp]
             ELSE IF ~InBounds(temps, idx)
             THEN [st |-> "panic", temps |-> temps, node |-> idx, delta |-> delta_temp]
             ELSE ApplyFrom([temps EXCEPT ![idx + 1] = FAdd(@, delta_temp)], list, j + 1)

ApplyUpdates(temps, list) == ApplyFrom(temps, list, 1)

\* --------------------------------------------------------------- process
\* temperatures.as_array().to_owned()
to_owned(array) == array

\* Faulty variants of the loop header: a loop that tests after the body, and
\* the range 0..=steps.
LoopAtLeastOnce(n, steps) == n < steps \/ n = 0
LoopInclusive(n, steps) == n <= steps

\* for _i in 0..steps
LoopContinues(n, steps) == n < steps

\* PyArray1::from_vec(py, temperatures.to_vec())
from_vec(v) == OkRet(v)

\* The caller invokes process(temperatures, capacities, parameters, connections,
\* edge_types, dt, steps).
Call(in) ==
    /\ pc = "caller" /\ phase = "single"
    /\ inp' = in
    /\ orig' = [temperatures |-> in.temperatures, steps |-> in.steps]
    /\ pc' = "entry"
    /\ UNCHANGED <<temperatures, i, update_list, ret, phase, first, chain>>

Enter ==
    /\ pc = "entry"
    /\ temperatures' = to_owned(inp.temperatures)
    /\ i' = 0
    /\ pc' = "loop"
    /\ UNCHANGED <<inp, update_list, ret, callerVars>>

EvaluateOk ==
    /\ pc = "loop" /\ LoopContinues(i, inp.steps)
    /\ LET r == EvaluateEdges(inp, temperatures, update_list)
       IN  /\ r.st = "ok"
           /\ update_list' = r.updates
    /\ pc' = "apply"
    /\ UNCHANGED <<inp, temperatures, i, ret, callerVars>>

EvaluateUndefined ==
    /\ pc = "loop" /\ LoopContinues(i, inp.steps)
    /\ LET r == EvaluateEdges(inp, temperatures, update_list)
       IN  /\ r.st = "err"
           /\ update_list' = r.updates
           /\ ret' = UndefinedEdgeType(r.code)
    /\ pc' = "Failed"
    /\ UNCHANGED <<inp, temperatures, i, callerVars>>

EvaluatePanic ==
    /\ pc = "loop" /\ LoopContinues(i, inp.steps)
    /\ LET r == EvaluateEdges(inp, temperatures, update_list)
       IN  /\ r.st = "panic"
           /\ update_list' = r.updates
    /\ ret' = PanicRet
    /\ pc' = "Panicked"
    /\ UNCHANGED <<inp, temperatures, i, callerVars>>

ApplyOk ==
    /\ pc = "apply"
    /\ LET r == ApplyUpdates(temperatures, update_list)
       IN  /\ r.st = "ok"
           /\ temperatures' = r.temps
    /\ update_list' = <<>>
    /\ i' = i + 1
    /\ pc' = "loop"
    /\ UNCHANGED <<inp, ret, callerVars>>

ApplyDiverged ==
    /\ pc = "apply"
    /\ LET r == ApplyUpdates(temperatures, update_list)
       IN  /\ r.st = "err"
           /\ temperatures' = r.temps
           /\ ret' = LargeChange(r.node, r.delta)
    /\ pc' = "Failed"
    /\ UNCHANGED <<inp, i, update_list, callerVars>>

ApplyPanic ==
    /\ pc = "apply"
    /\ LET r == ApplyUpdates(temperatures, update_list)
       IN  /\ r.st = "panic"
           /\ temperatures' = r.temps
    /\ ret' = PanicRet
    /\ pc' = "Panicked"
    /\ UNCHANGED <<inp, i, update_list, callerVars>>

\* A faulty variant of the return: the input array, not the owned copy.
ReturnInput ==
    /\ pc = "loop" /\ ~LoopContinues(i, inp.steps)
    /\ ret' = from_vec(inp.temperatures)
    /\ pc' = "Completed"
    /\ UNCHANGED <<inp, temperatures, i, update_list, callerVars>>

Return ==
    /\ pc = "loop" /\ ~LoopContinues(i, inp.steps)
    /\ ret' = from_vec(temperatures)
    /\ pc' = "Completed"
    /\ UNCHANGED <<inp, temperatures, i, update_list, callerVars>>

Terminal == {"Completed", "Failed", "Panicked"}

\* ------------------------------------------------------------ the caller
\* After the call with steps = k the caller runs the chain: k calls with
\* steps = 1, each fed the previous call's output.
BeginChain ==
    /\ phase = "single" /\ pc \in Terminal
    /\ phase' = "chain"
    /\ first' = [ret |-> ret, i |-> i]
    /\ chain' = [calls |-> 0, out |-> OkRet(orig.temperatures)]
    /\ pc' = "idle"
    /\ UNCHANGED <<inp, temperatures, i, update_list, ret, orig>>

ChainCall ==
    /\ phase = "chain" /\ pc = "idle"
    /\ chain.calls < orig.steps /\ chain.out.tag = "ok"
    /\ inp' = [inp EXCEPT !.temperatures = chain.out.array, !.steps = 1]
    /\ ret' = NoRet
    /\ pc' = "entry"
    /\ UNCHANGED <<temperatures, i, update_list, callerVars>>

ChainReturn ==
    /\ phase = "chain" /\ pc \in Terminal
    /\ chain' = [calls |-> chain.calls + 1, out |-> ret]
    /\ pc' = "idle"
    /\ UNCHANGED <<inp, temperatures, i, update_list, ret, orig, phase, first>>

ChainFinished ==
    phase = "chain" /\ pc = "idle" /\ (chain.calls >= orig.steps \/ chain.out.tag # "ok")

\* ------------------------------------------------------------ the inputs
Edge(t, p, n1, n2) == [type |-> t, parameter |-> p, conn |-> <<n1, n2>>]

MkInput(tv, cv, edges, dt, steps) ==
    [temperatures |-> tv,
     capacities |-> cv,
     parameters |-> [k \in 1..Len(edges) |-> edges[k].parameter],
     connections |-> [k \in 1..Len(edges) |-> edges[k].conn],
     edge_types |-> [k \in 1..Len(edges) |-> edges[k].type],
     dt |-> dt,
     steps |-> steps]

\* Two nodes.  2^Prec is the first value whose successor is not representable.
BigT == F(2 ^ Prec)
TempVecs == {<<F(0), F(7)>>, <<F(7), F(7)>>, <<F(7), BigT>>}
CapVecs == {<<F(1), F(1)>>, <<F(3), F(1)>>, <<F(1), F(3)>>}

\* 2^26 < 1e8 < 2^27.
Transfer01 == Edge(0, F(1), 0, 1)
Radiation10 == Edge(1, F(1), 1, 0)
HeatFour == Edge(2, F(4), 0, 1)
HeatSeven == Edge(2, F(7), 0, 1)
HeatHuge == Edge(2, Canon(1, 27), 1, 0)
HeatLarge == Edge(2, Canon(1, 26), 0, 1)
TransferR0 == Edge(0, Zero, 0, 1)
EdgeChoices == {Transfer01, Radiation10, HeatFour, HeatSeven, HeatHuge, HeatLarge, TransferR0}

EdgeLists(n) == UNION {[1..m -> EdgeChoices] : m \in 0..n}

WellFormedInputs ==
    {MkInput(tv, cv, edges, F(1), steps) :
        tv \in TempVecs, cv \in CapVecs, edges \in EdgeLists(MaxEdges),
        steps \in (-1)..MaxSteps}

\* Inputs that break one invariant of the data model each.
BadCode(c) == Edge(c, F(1), 0, 1)
MalformedEdgeLists ==
    {<<BadCode(3)>>, <<BadCode(-1)>>, <<Transfer01, BadCode(3)>>, <<BadCode(3), Transfer01>>,
     <<Edge(0, F(1), 0, 2)>>, <<Edge(2, F(1), 2, 0)>>, <<Edge(2, F(1), 0, 2)>>,
     <<HeatFour, Edge(1, F(1), 2, 1)>>}
MalformedCapVecs == {<<Zero, F(1)>>, <<F(-1), F(1)>>, <<F(1)>>, <<F(1), F(1), F(1)>>}
ShortParameters(in) == [in EXCEPT !.parameters = SubSeq(@, 1, Len(@) - 1)]
LongEdgeTypes(in) == [in EXCEPT !.edge_types = Append(@, 0)]

MalformedInputs ==
    {MkInput(<<F(0), F(7)>>, <<F(1), F(1)>>, edges, F(1), steps) :
        edges \in MalformedEdgeLists, steps \in 0..MaxSteps}
    \cup {MkInput(<<F(0), F(7)>>, cv, edges, F(1), steps) :
        cv \in MalformedCapVecs, edges \in {<<Transfer01>>, <<Edge(2, F(1), 1, 0)>>, <<Edge(2, F(1), 0, 2)>>},
        steps \in 0..MaxSteps}
    \cup {ShortParameters(MkInput(<<F(0), F(7)>>, <<F(1), F(1)>>, <<Transfer01, HeatFour>>, F(1), steps)) :
        steps \in 0..MaxSteps}
    \cup {LongEdgeTypes(MkInput(<<F(0), F(7)>>, <<F(1), F(1)>>, <<Transfer01>>, F(1), steps)) :
        steps \in 0..MaxSteps}

Inputs == WellFormedInputs \cup MalformedInputs

\* The inputs of the runs checked for termination: fewer networks, as many steps.
LiveEdgeChoices == {Transfer01, HeatSeven, HeatHuge}
LiveInputs ==
    {MkInput(tv, <<F(1), F(1)>>, edges, F(1), steps) :
        tv \in TempVecs,
        edges \in UNION {[1..m -> LiveEdgeChoices] : m \in 0..MaxEdges},
        steps \in (-1)..MaxSteps}
    \cup MalformedInputs

\* ------------------------------------------------------ specifications
NoInput == MkInput(<<>>, <<>>, <<>>, Zero, 0)

\* Before the call.
Init ==
    /\ inp = NoInput
    /\ pc = "caller"
    /\ temperatures = <<>>
    /\ i = 0
    /\ update_list = <<>>
    /\ ret = NoRet
    /\ orig = [temperatures |-> <<>>, steps |-> 0]
    /\ phase = "single"
    /\ first = [ret |-> NoRet, i |-> 0]
    /\ chain = [calls |-> 0, out |-> NoRet]

\* The steps of process itself.
Run ==
    \/ Enter
    \/ EvaluateOk
    \/ EvaluateUndefined
    \/ EvaluatePanic
    \/ ApplyOk
    \/ ApplyDiverged
    \/ ApplyPanic
    \/ Return

Next ==
    \/ pc = "caller" /\ \E in \in Inputs : Call(in)
    \/ Run

NextLive ==
    \/ pc = "caller" /\ \E in \in LiveInputs : Call(in)
    \/ Run

NextChain ==
    \/ Next
    \/ BeginChain
    \/ ChainCall
    \/ ChainReturn

\* One call of process.
Spec == Init /\ [][Next]_vars

\* One call of process on the inputs of LiveInputs.  The call is synchronous:
\* once entered, process keeps running until it returns, fails or panics.
FairSpec == Init /\ [][NextLive]_vars /\ WF_vars(Run)

\* One call with steps = k, then the caller's chain of k calls with steps = 1.
SpecChain == Init /\ [][NextChain]_vars

\* ---------------------------------------------------- the data model
\* The invariants of the data model (spec section 3): what "well-formed" means.
Positive(x) == (IsFin(x) \/ IsInf(x)) /\ x.m > 0
KnownCodes == {0, 1, 2}
WellFormed(in) ==
    /\ Len(in.temperatures) = Len(in.capacities)
    /\ Len(in.parameters) = Len(in.connections)
    /\ Len(in.connections) = Len(in.edge_types)
    /\ \A n \in 1..Len(in.capacities) : Positive(in.capacities[n])
    /\ \A k \in 1..Len(in.connections) :
          /\ InBounds(in.temperatures, in.connections[k][1])
          /\ InBounds(in.temperatures, in.connections[k][2])
    /\ \A k \in 1..Len(in.edge_types) : in.edge_types[k] \in KnownCodes

\* The entries an edge of code t adds to the list, and where edge k's start.
EntryCount(t) == IF t = 2 THEN 1 ELSE 2
RECURSIVE Offset(_, _)
Offset(in, k) == IF k <= 1 THEN 0 ELSE Offset(in, k - 1) + EntryCount(in.edge_types[k - 1])

\* flow of edge k against the snapshot, by the formulas of spec section 4.2.
Flow(in, snap, k) ==
    LET n1 == in.connections[k][1]
        n2 == in.connections[k][2]
        par == in.parameters[k]
    IN  CASE in.edge_types[k] = 0 -> FMul(FDiv(FSub(At(snap, n2), At(snap, n1)), par), in.dt)
          [] in.edge_types[k] = 1 ->
                FMul(FMul(FSub(Powi4(At(snap, n2)), Powi4(At(snap, n1))), par), in.dt)
          [] OTHER -> FMul(par, in.dt)

\* The contributions of edge k alone, evaluated against snap.
EdgeContribs(in, snap, k) ==
    update_edge(from_i32(in.edge_types[k]), in.parameters[k], in.dt, in.capacities, snap,
                in.connections[k][1], in.connections[k][2], <<>>).updates

RECURSIVE ConcatContribs(_, _, _)
ConcatContribs(in, snap, k) ==
    IF k = 0 THEN <<>> ELSE ConcatContribs(in, snap, k - 1) \o EdgeContribs(in, snap, k)

\* t plus the deltas of the entries 1..j of list that target node n (0-based), in order.
RECURSIVE SumInto(_, _, _, _)
SumInto(t, list, n, j) ==
    IF j = 0 THEN t
    ELSE LET before == SumInto(t, list, n, j - 1)
         IN  IF list[j][1] = n THEN FAdd(before, list[j][2]) ELSE before

\* Exact (unrounded) arithmetic on finite values.
ExactProd(a, b) == Canon(a.m * b.m, a.e + b.e)
\* |c * d - f| <= 2^-Prec * |f| in exact arithmetic: c * d is f up to one rounding.
WithinRounding(c, d, f) ==
    IF f.m = 0 THEN d.m = 0
    ELSE IF d.m = 0 THEN FALSE
    ELSE LET pm == c.m * d.m
             pe == c.e + d.e
             e0 == Min2(pe, f.e)
         IN  IF pe - e0 > 16 \/ f.e - e0 > 16 THEN FALSE
             ELSE LET a == pm * 2 ^ (pe - e0)
                      b == f.m * 2 ^ (f.e - e0)
                  IN  IAbs(a - b) * 2 ^ Prec <= IAbs(b)

\* ---------------------------------------------------------------- C1
\* C1: in a step every edge is evaluated against the temperatures at the start
\* of the step (the list holds, edge by edge, that edge's contributions computed
\* from the snapshot alone), and applying the list leaves every node at its
\* start-of-step temperature plus all the contributions that target it, added
\* in list order: none is overwritten or lost.
C1_SnapshotAndAccumulate ==
    [][ /\ (pc = "loop" /\ pc' = "apply") =>
               update_list' = ConcatContribs(inp, temperatures, ZipLen(inp))
        /\ (pc = "apply" /\ pc' = "loop") =>
               /\ Len(temperatures') = Len(temperatures)
               /\ \A n \in 1..Len(temperatures) :
                     temperatures'[n] =
                         SumInto(temperatures[n], update_list, n - 1, Len(update_list)) ]_vars

\* A step was applied in which two entries with non-zero deltas targeted the same
\* node, whose temperature before the step was not zero.
C1_Witness ==
    /\ pc = "loop" /\ i = 1 /\ WellFormed(inp)
    /\ LET list == ConcatContribs(inp, inp.temperatures, ZipLen(inp))
       IN  \E a, b \in 1..Len(list) :
              /\ a < b /\ list[a][1] = list[b][1]
              /\ IsFin(list[a][2]) /\ list[a][2].m # 0
              /\ IsFin(list[b][2]) /\ list[b][2].m # 0
              /\ At(inp.temperatures, list[a][1]).m # 0
              /\ At(temperatures, list[a][1]) # At(inp.temperatures, list[a][1])

\* ---------------------------------------------------------------- C2
\* C2: a call whose input is malformed fails before any step executes and
\* before any temperature is changed: it never completes, never panics and
\* never finishes a step.
C2_MalformedFailsFirst ==
    ~WellFormed(inp) =>
        /\ pc \notin {"Completed", "Panicked"}
        /\ i = 0
        /\ (pc = "Failed" => ret.tag = "err" /\ temperatures = inp.temperatures)

\* ---------------------------------------------------------------- C3
\* C3: a call ends Completed with a vector of length N, or Failed with an error
\* and no vector; there is no third outcome, and the caller's temperature array
\* is what it was.
C3_TwoOutcomes ==
    /\ pc \in {"caller", "entry", "loop", "apply", "Completed", "Failed"}
    /\ (pc = "Completed" => ret.tag = "ok" /\ Len(ret.array) = Len(inp.temperatures))
    /\ (pc = "Failed" => ret.tag = "err" /\ ret.array = <<>>)
    /\ inp.temperatures = orig.temperatures

\* ---------------------------------------------------------------- C4
\* The entries of the list whose delta is beyond the threshold.
Offending(list) == {j \in 1..Len(list) : AbsGt(list[j][2], Threshold)}

\* C4: on well-formed input the edge loop never fails, and the apply loop fails
\* exactly when some single entry of the step's list has |delta| > 1e8 (wherever
\* it is in the list, and whatever the per-node sums are); the error then carries
\* the node index and the delta of such an entry.
C4_DivergenceGuard ==
    [][ WellFormed(inp) =>
          /\ (pc = "loop" => pc' \in {"loop", "apply", "Completed"})
          /\ (pc = "apply" /\ pc' # "apply" =>
                /\ (pc' = "Failed") <=> (Offending(update_list) # {})
                /\ (pc' # "Failed") => pc' = "loop"
                /\ (pc' = "Failed") =>
                      /\ ret'.tag = "err" /\ ret'.kind = "LargeChange"
                      /\ \E j \in Offending(update_list) :
                            ret'.node = update_list[j][1] /\ ret'.delta = update_list[j][2]) ]_vars

\* The run failed on an entry that is not the first of its list, after a step in
\* which nothing was beyond the threshold.
C4_Witness ==
    /\ pc = "Failed" /\ WellFormed(inp) /\ ret.kind = "LargeChange" /\ i >= 1
    /\ Offending(update_list) # {}
    /\ 1 \notin Offending(update_list)

\* Two entries below the threshold whose sum, on one node, is beyond it were
\* applied.
C4_WitnessSum ==
    /\ pc = "loop" /\ i = 1 /\ WellFormed(inp)
    /\ \E n \in 1..Len(temperatures) :
          AbsGt(FSub(temperatures[n], inp.temperatures[n]), Threshold)

\* ---------------------------------------------------------------- C5
\* C5: with steps = 0 no step is evaluated or applied, the call cannot fail, and
\* it returns the input vector, component for component, for any network.
C5_ZeroSteps ==
    inp.steps = 0 =>
        /\ pc \in {"caller", "entry", "loop", "Completed"}
        /\ i = 0
        /\ update_list = <<>>
        /\ (pc \in {"loop", "Completed"} => temperatures = inp.temperatures)
        /\ (pc = "Completed" => ret = OkRet(inp.temperatures))

\* A call with steps = 0 on a network with edges returned.
C5_Witness ==
    /\ inp.steps = 0 /\ pc = "Completed" /\ ZipLen(inp) >= 1
    /\ ret.array = orig.temperatures

\* ---------------------------------------------------------------- C6
\* C6: on well-formed input with k >= 0, when the chain of calls with steps = 1
\* has ended, it ended as the one call with steps = k did: both returned the same
\* vector (the chain after k calls), or both failed, the chain at the call whose
\* number is the step at which the one call failed.
C6_Composable ==
    (ChainFinished /\ WellFormed(inp) /\ orig.steps >= 0) =>
        /\ chain.out.tag = first.ret.tag
        /\ chain.out.tag \in {"ok", "err"}
        /\ (first.ret.tag = "ok" =>
               chain.calls = orig.steps /\ chain.out.array = first.ret.array)
        /\ (first.ret.tag = "err" => chain.calls = first.i + 1)

\* A chain of at least two calls ended with a vector that is not the input.
C6_Witness ==
    /\ ChainFinished /\ WellFormed(inp) /\ orig.steps >= 2
    /\ first.ret.tag = "ok" /\ chain.calls = orig.steps
    /\ chain.out.array # orig.temperatures

\* --------------------------------------------------------------- C10
Max2(a, b) == IF a > b THEN a ELSE b

EntryAt(in, list, k, n) == list[Offset(in, k) + n]
PairEdges(in) == {k \in 1..ZipLen(in) : in.edge_types[k] \in {0, 1}}
HeatEdges(in) == {k \in 1..ZipLen(in) : in.edge_types[k] = 2}

\* capacity[a] * delta[a] + capacity[b] * delta[b] is zero: as real numbers, or
\* as the f64 expression evaluates.
ZeroEnergy(c1, d1, c2, d2) ==
    \/ ExactProd(c1, d1) = NegOf(ExactProd(c2, d2))
    \/ FAdd(FMul(c1, d1), FMul(c2, d2)) = Zero

\* C7 as stated: for every Transfer or Radiation edge with finite contributions,
\* capacity[n1] * delta[n1] + capacity[n2] * delta[n2] = 0.
C7_ExactlyConserved ==
    (pc = "apply" /\ WellFormed(inp)) =>
        \A k \in PairEdges(inp) :
            LET a == EntryAt(inp, update_list, k, 1)
                b == EntryAt(inp, update_list, k, 2)
            IN  (IsFin(a[2]) /\ IsFin(b[2])) =>
                    ZeroEnergy(At(inp.capacities, a[1]), a[2], At(inp.capacities, b[1]), b[2])

\* f / c is a value of the format: the division does not round.
ExactQuotient(f, c) == IsFin(FDiv(f, c)) /\ ExactProd(c, FDiv(f, c)) = f

\* C7 as amended: a Transfer or Radiation edge adds exactly two entries, for n1
\* then n2, which are flow / capacity[n1] and -flow / capacity[n2] for the one
\* flow of the edge against the snapshot, each division rounded once.  For a
\* finite flow capacity * delta is therefore +-flow up to a relative error of
\* 2^-Prec on each side; the two energies cancel exactly when the capacities
\* are equal or when neither division rounds.
C7_ConservedUpToRounding ==
    (pc = "apply" /\ WellFormed(inp)) =>
        /\ Len(update_list) = Offset(inp, ZipLen(inp) + 1)
        /\ \A k \in PairEdges(inp) :
            LET a == EntryAt(inp, update_list, k, 1)
                b == EntryAt(inp, update_list, k, 2)
                c1 == At(inp.capacities, inp.connections[k][1])
                c2 == At(inp.capacities, inp.connections[k][2])
                flow == Flow(inp, temperatures, k)
            IN  /\ a = <<inp.connections[k][1], FDiv(flow, c1)>>
                /\ b = <<inp.connections[k][2], FDiv(FNeg(flow), c2)>>
                /\ IsFin(flow) =>
                      /\ IsFin(a[2]) /\ IsFin(b[2])
                      /\ WithinRounding(c1, a[2], flow)
                      /\ WithinRounding(c2, b[2], FNeg(flow))
                      /\ (c1 = c2 \/ (ExactQuotient(flow, c1) /\ ExactQuotient(flow, c2)))
                            => ExactProd(c1, a[2]) = NegOf(ExactProd(c2, b[2]))

\* A Transfer or Radiation edge between nodes of different capacities was
\* evaluated to a non-zero finite flow whose division rounds.
C7_Witness ==
    /\ pc = "apply" /\ WellFormed(inp)
    /\ \E k \in PairEdges(inp) :
          LET c1 == At(inp.capacities, inp.connections[k][1])
              c2 == At(inp.capacities, inp.connections[k][2])
              flow == Flow(inp, temperatures, k)
          IN  /\ IsFin(flow) /\ flow.m # 0 /\ c1 # c2
              /\ ~ExactQuotient(flow, c1)
              /\ EntryAt(inp, update_list, k, 1)[2] = FDiv(flow, c1)

\* ---------------------------------------------------------------- C8
\* C8 as stated: a HeatInput edge adds one entry, for n2, with
\* capacity[n2] * delta[n2] = Q * dt.
C8_ExactInjection ==
    (pc = "apply" /\ WellFormed(inp)) =>
        \A k \in HeatEdges(inp) :
            LET a == EntryAt(inp, update_list, k, 1)
                c2 == At(inp.capacities, inp.connections[k][2])
            IN  /\ a[1] = inp.connections[k][2]
                /\ IsFin(a[2]) =>
                      \/ ExactProd(c2, a[2]) = ExactProd(inp.parameters[k], inp.dt)
                      \/ FMul(c2, a[2]) = FMul(inp.parameters[k], inp.dt)

\* The nodes a step can change: the endpoints of the Transfer and Radiation
\* edges and the second endpoints of the HeatInput edges.
Targets(in) ==
    {in.connections[k][1] : k \in PairEdges(in)}
    \cup {in.connections[k][2] : k \in 1..ZipLen(in)}

\* C8 as amended: a HeatInput edge adds exactly one entry per step, for n2,
\* which is Q * dt / capacity[n2] with the product and the division each
\* rounded once, whatever the temperatures; capacity[n2] * delta[n2] is the
\* rounded Q * dt up to a relative error of 2^-Prec, and exactly that when the
\* division does not round.  The edge adds nothing for n1: a node that is the
\* target of no edge keeps its temperature through the step.
C8_InjectionUpToRounding ==
    [][ (pc = "apply" /\ WellFormed(inp)) =>
          /\ Len(update_list) = Offset(inp, ZipLen(inp) + 1)
          /\ \A k \in HeatEdges(inp) :
                LET a == EntryAt(inp, update_list, k, 1)
                    c2 == At(inp.capacities, inp.connections[k][2])
                    flow == FMul(inp.parameters[k], inp.dt)
                IN  /\ EntryCount(inp.edge_types[k]) = 1
                    /\ a = <<inp.connections[k][2], FDiv(flow, c2)>>
                    /\ IsFin(flow) =>
                          /\ WithinRounding(c2, a[2], flow)
                          /\ ExactQuotient(flow, c2) => ExactProd(c2, a[2]) = flow
          /\ (pc' = "loop" =>
                \A n \in 1..Len(temperatures) :
                    (n - 1) \notin Targets(inp) => temperatures'[n] = temperatures[n]) ]_vars

\* A step was applied whose only edge is a HeatInput edge between two different
\* nodes whose division rounds: n2 moved and n1 did not.
C8_Witness ==
    /\ pc = "loop" /\ i = 1 /\ WellFormed(inp) /\ ZipLen(inp) = 1
    /\ HeatEdges(inp) = {1}
    /\ LET n1 == inp.connections[1][1]
           n2 == inp.connections[1][2]
       IN  /\ n1 # n2
           /\ ~ExactQuotient(FMul(inp.parameters[1], inp.dt), At(inp.capacities, n2))
           /\ At(temperatures, n2) # At(inp.temperatures, n2)
           /\ At(temperatures, n1) = At(inp.temperatures, n1)

\* ---------------------------------------------------------------- C9
Perms(n) == {p \in [1..n -> 1..n] : \A a, b \in 1..n : a # b => p[a] # p[b]}
Permuted(in, p) ==
    [in EXCEPT !.parameters = [k \in 1..Len(@) |-> @[p[k]]],
               !.connections = [k \in 1..Len(@) |-> @[p[k]]],
               !.edge_types = [k \in 1..Len(@) |-> @[p[k]]]]

\* One step from snap: the list of the edge loop, then the apply loop.
StepOutcome(in, snap) ==
    LET ev == EvaluateEdges(in, snap, <<>>)
    IN  IF ev.st # "ok" THEN [st |-> ev.st, temps |-> snap, list |-> ev.updates]
        ELSE LET ap == ApplyUpdates(snap, ev.updates)
             IN  [st |-> ap.st, temps |-> ap.temps, list |-> ev.updates]

AboutToStep == pc = "loop" /\ LoopContinues(i, inp.steps) /\ WellFormed(inp)

\* C9 as stated: a step on the edges in any other order fails if and only if
\* this one does, and gives the same next snapshot.
C9_OrderIndependent ==
    AboutToStep =>
        \A p \in Perms(ZipLen(inp)) :
            LET a == StepOutcome(inp, temperatures)
                b == StepOutcome(Permuted(inp, p), temperatures)
            IN  a.st = b.st /\ (a.st = "ok" => a.temps = b.temps)

Count(list, x) == Cardinality({j \in 1..Len(list) : list[j] = x})
SameEntries(l1, l2) ==
    /\ Len(l1) = Len(l2)
    /\ \A j \in 1..Len(l1) : Count(l1, l1[j]) = Count(l2, l1[j])
\* The entries of list for node n (0-based) that add something.
Adding(list, n) == {j \in 1..Len(list) : list[j][1] = n /\ list[j][2] # Zero}

\* C9 as amended: a step on the edges in any other order has the same entries
\* in its list (as a multiset) and fails if and only if this one does; when it
\* succeeds, every node that receives at most one non-zero contribution has the
\* same new temperature in both orders.  (A node that receives several has
\* their f64 sum in list order, which depends on the order by rounding.)
C9_OrderUpToRounding ==
    AboutToStep =>
        \A p \in Perms(ZipLen(inp)) :
            LET a == StepOutcome(inp, temperatures)
                b == StepOutcome(Permuted(inp, p), temperatures)
            IN  /\ a.st = b.st
                /\ SameEntries(a.list, b.list)
                /\ a.st = "ok" =>
                      \A n \in 1..Len(temperatures) :
                          Cardinality(Adding(a.list, n - 1)) <= 1 => a.temps[n] = b.temps[n]

\* After a first step, a second one is about to run on two different edges that
\* both add to one node.
C9_Witness ==
    /\ AboutToStep /\ i >= 1 /\ ZipLen(inp) >= 2
    /\ \E p \in Perms(ZipLen(inp)) : Permuted(inp, p) # inp
    /\ LET a == StepOutcome(inp, temperatures)
       IN  /\ a.st = "ok"
           /\ \E n \in 1..Len(temperatures) : Cardinality(Adding(a.list, n - 1)) >= 2
====
